---- MODULE Spec2Model ----
(***************************************************************************)
(* A model of the Keras frontend, python/tvm/relay/frontend/keras.py:      *)
(* the graph walker from_keras with keras_op_to_relay, the expression      *)
(* table it drives, and the padding calculator _get_pad_pair.              *)
(***************************************************************************)
EXTENDS Integers, Sequences, FiniteSets, TLC

VARIABLES
    model,      \* the Keras model handed to from_keras (layers, call-sites, outputs)
    backend,    \* keras.backend.backend()
    image_data_format, \* keras.backend.image_data_format()
    pc,         \* position in from_keras
    li,         \* index into model.layers of the layer being visited (1-based)
    node_idx,   \* index into the layer's inbound_nodes (0-based, as enumerate)
    ei,         \* index of the next incoming edge of the node to resolve (1-based)
    inexpr,     \* the values resolved so far for the current call-site
    outs,       \* the values the lowering rule returned, still to be recorded
    t_idx,      \* the output slot to record next (0-based, as enumerate)
    exprs,      \* ExprTable.exprs: symbol-table key -> value
    params,     \* ExprTable.params: sequence of [name, array] in registration order
    outexpr,    \* the output values collected so far
    result,     \* what from_keras returned: NoResult or [body, params]
    err,        \* the error that aborted from_keras, "" when none
    passed,     \* history: the argument each lowered call-site's rule received
    written,    \* history: every key handed to set_expr, in order
    resolved,   \* history: call-sites for which an incoming edge was looked up
    recorded,   \* history: the values returned for each call-site fully recorded
    pad_in,     \* padding calculator: the arguments (input1d, kernel1d, stride1d)
    pad_out,    \* padding calculator: the pair returned, <<>> before the call
    rule_in,    \* a lowering rule on its own: the call [layer, arg]
    rule_out    \* a lowering rule on its own: <<what it returned>>, <<>> before the call

vars == <<model, backend, image_data_format, pc, li, node_idx, ei, inexpr, outs,
          t_idx, exprs, params, outexpr, result, err, passed, written, resolved,
          recorded, pad_in, pad_out, rule_in, rule_out>>

walker_vars == <<model, backend, image_data_format, pc, li, node_idx, ei, inexpr,
                 outs, t_idx, exprs, params, outexpr, result, err, passed, written,
                 resolved, recorded>>

pad_vars == <<pad_in, pad_out>>

rule_vars == <<rule_in, rule_out>>

\* the variables of the functions checked on their own
pure_vars == <<pad_vars, rule_vars>>

-----------------------------------------------------------------------------
(* Bounds of the model.                                                     *)

\* the largest number of inputs of a merge layer
MaxMergeInputs == 3
\* the largest number of call-sites of one shared layer
MaxCallSites == 2
\* the largest number of LSTM time steps
MaxTimeSteps == 2
\* the largest input size, kernel size and stride of the padding calculator
MaxInput == 8
MaxKernel == 5
MaxStride == 4
\* the largest input height and width and the largest kernel height and width of
\* a convolution lowered on its own
MaxConvInput == 4
MaxConvKernel == 3

-----------------------------------------------------------------------------
(* Generic helpers.                                                         *)

Max(S) == CHOOSE x \in S : \A y \in S : y <= x

Range(s) == {s[i] : i \in DOMAIN s}

RECURSIVE SeqOfSet(_)
\* the elements of a set of integers as an ascending sequence
SeqOfSet(S) ==
    IF S = {} THEN <<>>
    ELSE LET m == CHOOSE x \in S : \A y \in S : x <= y
         IN <<m>> \o SeqOfSet(S \ {m})

-----------------------------------------------------------------------------
(* The Keras model as from_keras reads it.  A model is built the way the    *)
(* functional API builds it: layer descriptors are created, then called on  *)
(* tensors; every call appends one inbound node to the called layer.  The   *)
(* construction below derives from such a history what from_keras reads:    *)
(* model.layers (ordered by decreasing depth), layer.inbound_nodes,         *)
(* model._network_nodes and model._output_coordinates.                      *)

\* the number of values _convert_map[kind] returns
NumOutputs(kind) ==
    CASE kind = "LSTM" -> 3
      [] kind \in {"SimpleRNN", "GRU"} -> 2
      [] OTHER -> 1

\* a layer descriptor: kind tag, unique name and the attributes the rules read;
\* a shape is a sequence of dimensions, 0 standing for None
LayerDesc(name, kind, use_bias, padding, input_shape) ==
    [name |-> name, kind |-> kind, use_bias |-> use_bias,
     padding |-> padding, input_shape |-> input_shape,
     kernel_size |-> <<3, 3>>, strides |-> <<1, 1>>, dilation_rate |-> <<1, 1>>,
     units |-> 4]

InputLayer(i, shape) == LayerDesc("input_" \o ToString(i), "InputLayer", FALSE, "", shape)
Dense(i, use_bias, shape) == LayerDesc("dense_" \o ToString(i), "Dense", use_bias, "", shape)
Conv2D(i, padding, shape) == LayerDesc("conv2d_" \o ToString(i), "Conv2D", FALSE, padding, shape)
Recurrent(kind, pre, i, shape) == LayerDesc(pre \o ToString(i), kind, TRUE, "", shape)
Plain(kind, pre, i, shape) == LayerDesc(pre \o ToString(i), kind, FALSE, "", shape)

\* one call of a layer: the tensors it was called on, each a reference
\* <<layer (index into the history's layers), node index, tensor index>>
Call(layer, ins) == [layer |-> layer, ins |-> ins]

History(layers, calls, outputs) ==
    [layers |-> layers, calls |-> calls, outputs |-> outputs]

IsInputLayer(layer) == layer.kind = "InputLayer"

\* the node index of call c: the number of earlier calls of the same layer
NodeIndexOf(h, c) ==
    Cardinality({c2 \in 1..(c - 1) : h.calls[c2].layer = h.calls[c].layer})

\* call c produces the tensor ref
Produces(h, c, ref) ==
    /\ ref[1] = h.calls[c].layer
    /\ ref[2] = NodeIndexOf(h, c)

\* call c2 consumes a tensor of call c
Feeds(h, c, c2) == \E i \in DOMAIN h.calls[c2].ins : Produces(h, c, h.calls[c2].ins[i])

IsOutputCall(h, c) == \E i \in DOMAIN h.outputs : Produces(h, c, h.outputs[i])

RECURSIVE RelevantFrom(_, _, _)
\* the calls among 1..c that the outputs depend on, given those found above c
RelevantFrom(h, c, acc) ==
    IF c = 0 THEN acc
    ELSE IF IsOutputCall(h, c) \/ \E c2 \in acc : Feeds(h, c, c2)
         THEN RelevantFrom(h, c - 1, acc \cup {c})
         ELSE RelevantFrom(h, c - 1, acc)

RelevantCalls(h) == RelevantFrom(h, Len(h.calls), {})

RECURSIVE CallDepth(_, _)
\* the depth of a relevant call: 0 at an output, one more than its deepest consumer
CallDepth(h, c) ==
    Max({0} \cup {CallDepth(h, c2) + 1 : c2 \in {x \in RelevantCalls(h) : Feeds(h, c, x)}})

\* the input layers the model contains
InputConsumers(h, l) ==
    {c \in RelevantCalls(h) : \E i \in DOMAIN h.calls[c].ins : h.calls[c].ins[i][1] = l}

IsModelInput(h, l) ==
    /\ IsInputLayer(h.layers[l])
    /\ \/ InputConsumers(h, l) # {}
       \/ \E i \in DOMAIN h.outputs : h.outputs[i][1] = l

\* the layers of the model: those with a node the outputs depend on
IsModelLayer(h, l) ==
    \/ IsModelInput(h, l)
    \/ \E c \in RelevantCalls(h) : h.calls[c].layer = l

LayerDepth(h, l) ==
    IF IsInputLayer(h.layers[l])
    THEN Max({0} \cup {CallDepth(h, c) + 1 : c \in InputConsumers(h, l)})
    ELSE Max({CallDepth(h, c) : c \in {x \in RelevantCalls(h) : h.calls[x].layer = l}})

RECURSIVE ByDepth(_, _)
\* the layers of S by decreasing depth, creation order among equals
ByDepth(h, S) ==
    IF S = {} THEN <<>>
    ELSE LET l == CHOOSE x \in S : \A y \in S :
                      \/ LayerDepth(h, x) > LayerDepth(h, y)
                      \/ LayerDepth(h, x) = LayerDepth(h, y) /\ x <= y
         IN <<l>> \o ByDepth(h, S \ {l})

\* Network._node_key(layer, node_index)
NodeKey(name, n) == name \o "_ib-" \o ToString(n)

\* the inbound node of call c: node_indices, tensor_indices, inbound_layers
InboundNode(h, c) ==
    LET ins == h.calls[c].ins IN
    [node_indices |-> [i \in DOMAIN ins |-> ins[i][2]],
     tensor_indices |-> [i \in DOMAIN ins |-> ins[i][3]],
     inbound_layers |-> [i \in DOMAIN ins |-> h.layers[ins[i][1]]]]

\* layer.inbound_nodes: one node per call of the layer, in call order
InboundNodes(h, l) ==
    LET cs == SeqOfSet({c \in DOMAIN h.calls : h.calls[c].layer = l})
    IN [i \in DOMAIN cs |-> InboundNode(h, cs[i])]

\* the model from_keras receives
KerasModel(h) ==
    LET order == ByDepth(h, {l \in DOMAIN h.layers : IsModelLayer(h, l)}) IN
    [layers |-> [i \in DOMAIN order |->
                    [layer |-> h.layers[order[i]],
                     inbound_nodes |-> InboundNodes(h, order[i])]],
     network_nodes |-> {NodeKey(h.layers[h.calls[c].layer].name, NodeIndexOf(h, c)) :
                           c \in RelevantCalls(h)},
     output_coordinates |-> [i \in DOMAIN h.outputs |->
                    <<h.layers[h.outputs[i][1]], h.outputs[i][2], h.outputs[i][3]>>]]

-----------------------------------------------------------------------------
(* The family of models the walker is run on.                               *)

\* the layers Keras lets one call on a tensor of the given shape, as layer i
LayersOn(i, shape) ==
    {Dense(i, b, shape) : b \in BOOLEAN}
    \cup {Plain("Dropout", "dropout_", i, shape), Plain("Lambda", "lambda_", i, shape)}
    \cup (IF Len(shape) = 4
          THEN {Conv2D(i, p, shape) : p \in {"valid", "same"}}
          ELSE {})
    \cup (IF Len(shape) = 3
          THEN {Recurrent("LSTM", "lstm_", i, shape),
                Recurrent("SimpleRNN", "simple_rnn_", i, shape),
                Recurrent("GRU", "gru_", i, shape)}
          ELSE {})

\* the shape of the tensors a layer produces
OutputShape(layer) ==
    LET s == layer.input_shape IN
    CASE layer.kind \in {"LSTM", "SimpleRNN", "GRU"} -> <<0, layer.units>>
      [] layer.kind \in {"Dense", "Conv2D"} -> [s EXCEPT ![Len(s)] = layer.units]
      [] OTHER -> s

InputShapes ==
    {<<0, 4>>, <<0, 4, 4, 3>>} \cup {<<0, t, 4>> : t \in 1..MaxTimeSteps}

\* input -> A -> B, B reading any output slot of A, any slot of B (and possibly
\* A's first output, before or after it) requested
ChainHistories ==
    {History(<<InputLayer(1, s), a, b>>,
             <<Call(2, << <<1, 0, 0>> >>), Call(3, << <<2, 0, t>> >>)>>,
             o) :
        s \in InputShapes, a \in UNION {LayersOn(2, x) : x \in InputShapes},
        b \in UNION {LayersOn(3, OutputShape(y)) :
                        y \in UNION {LayersOn(2, x) : x \in InputShapes}},
        t \in 0..2,
        o \in {<< <<3, 0, u>> >> : u \in 0..2}
              \cup {<< <<2, 0, 0>>, <<3, 0, 0>> >>, << <<3, 0, 0>>, <<2, 0, 0>> >>}}

\* a chain Keras can build: shapes agree along it and every slot read exists
WellFormedChain(h) ==
    /\ h.layers[2].input_shape = h.layers[1].input_shape
    /\ h.layers[3].input_shape = OutputShape(h.layers[2])
    /\ h.calls[2].ins[1][3] < NumOutputs(h.layers[2].kind)
    /\ \A i \in DOMAIN h.outputs :
           h.outputs[i][3] < NumOutputs(h.layers[h.outputs[i][1]].kind)

MergeKinds == {"Add", "Subtract", "Multiply", "Maximum", "Average"}

\* n Dense layers on one input, merged by one merge layer
MergeHistory(kind, n) ==
    History(<<InputLayer(1, <<0, 4>>)>>
                \o [i \in 1..n |-> Dense(i, TRUE, <<0, 4>>)]
                \o <<Plain(kind, "merge_", 1, <<0, 4>>)>>,
            [i \in 1..n |-> Call(i + 1, << <<1, 0, 0>> >>)]
                \o <<Call(n + 2, [i \in 1..n |-> <<i + 1, 0, 0>>])>>,
            << <<n + 2, 0, 0>> >>)

MergeHistories ==
    {MergeHistory(k, n) : k \in MergeKinds \ {"Subtract"}, n \in 2..MaxMergeInputs}
    \cup {MergeHistory("Subtract", 2)}

\* one Dense layer shared by k inputs, every call-site's output requested
SharedParallel(k) ==
    History([i \in 1..k |-> InputLayer(i, <<0, 4>>)] \o <<Dense(1, TRUE, <<0, 4>>)>>,
            [i \in 1..k |-> Call(k + 1, << <<i, 0, 0>> >>)],
            [i \in 1..k |-> <<k + 1, i - 1, 0>>])

\* one layer applied k times in sequence, another layer between two applications:
\* x -> D -> M -> D -> M -> D ...
SharedSequential(k, through) ==
    History(<<InputLayer(1, <<0, 4>>), Dense(1, FALSE, <<0, 4>>), through>>,
            [c \in 1..(2 * k - 1) |->
                IF c = 1 THEN Call(2, << <<1, 0, 0>> >>)
                ELSE IF c % 2 = 0 THEN Call(3, << <<2, (c \div 2) - 1, 0>> >>)
                ELSE Call(2, << <<3, ((c - 1) \div 2) - 1, 0>> >>)],
            << <<2, k - 1, 0>> >>)

SharedHistories ==
    {SharedParallel(k) : k \in 2..MaxCallSites}
    \cup {SharedSequential(k, m) : k \in 2..MaxCallSites,
              m \in {Dense(2, TRUE, <<0, 4>>), Plain("Dropout", "dropout_", 1, <<0, 4>>)}}

\* models holding a layer that also has call-sites outside the model
PartialHistories ==
    LET in1 == InputLayer(1, <<0, 4>>)
        in2 == InputLayer(2, <<0, 4>>)
        d1 == Dense(1, TRUE, <<0, 4>>)
        d2 == Dense(2, TRUE, <<0, 4>>)
    IN {History(<<in1, in2, d1>>,
                <<Call(3, << <<2, 0, 0>> >>), Call(3, << <<1, 0, 0>> >>)>>,
                << <<3, 1, 0>> >>),
        History(<<in1, in2, d1>>,
                <<Call(3, << <<1, 0, 0>> >>), Call(3, << <<2, 0, 0>> >>)>>,
                << <<3, 0, 0>> >>),
        History(<<in1, d1, d2>>,
                <<Call(2, << <<1, 0, 0>> >>), Call(3, << <<2, 0, 0>> >>)>>,
                << <<2, 0, 0>> >>),
        History(<<in1, d1, d2>>,
                <<Call(2, << <<1, 0, 0>> >>), Call(3, << <<2, 0, 0>> >>),
                  Call(3, << <<1, 0, 0>> >>)>>,
                << <<3, 1, 0>> >>)}

\* an LSTM called with its initial state; a model returning one of its inputs
OtherHistories ==
    {History(<<InputLayer(1, <<0, t, 4>>), InputLayer(2, <<0, 4>>),
               InputLayer(3, <<0, 4>>), Recurrent(k, "rnn_", 1, <<0, t, 4>>)>>,
             <<Call(4, IF k = "LSTM"
                       THEN << <<1, 0, 0>>, <<2, 0, 0>>, <<3, 0, 0>> >>
                       ELSE << <<1, 0, 0>>, <<2, 0, 0>> >>)>>,
             << <<4, 0, u>> >>) :
        t \in 1..MaxTimeSteps, k \in {"LSTM", "SimpleRNN", "GRU"}, u \in 0..1}
    \cup {History(<<InputLayer(1, <<0, 4>>), Dense(1, TRUE, <<0, 4>>)>>,
                  <<Call(2, << <<1, 0, 0>> >>)>>,
                  << <<2, 0, 0>>, <<1, 0, 0>> >>)}

Histories ==
    {h \in ChainHistories : WellFormedChain(h)}
    \cup MergeHistories \cup SharedHistories \cup PartialHistories \cup OtherHistories

Models == {KerasModel(h) : h \in Histories}
-----------------------------------------------------------------------------
(* Values of the target IR, and the expression table.                       *)

\* an IR value: an operator, its name (variables only), its attributes and operands
Value(op, name, attrs, args) == [op |-> op, name |-> name, attrs |-> attrs, args |-> args]

\* _expr.var(name)
Var(name) == Value("var", name, <<>>, <<>>)

\* _expr.const(n)
Const(n) == Value("const", "", <<n>>, <<>>)

\* an operator call of the IR
Op(op, attrs, args) == Value(op, "", attrs, args)

\* element i of a tuple-valued operator call (the result of _op.split)
Item(v, i) == Value("item", "", <<i>>, <<v>>)

\* a weight array: array idx of the layer's get_weights(), as transformed
Array(of, idx, how) == [of |-> of, idx |-> idx, how |-> how]

\* ExprTable.new_const: the name of the n-th constant registered
ParamName(n) == "_param_" \o ToString(n)

\* ExprTable.new_const: the reference returned for the n-th constant registered
ConstRef(n) == Var(ParamName(n))

\* ExprTable.new_const: the registry after registering the arrays in order
Register(registry, arrays) ==
    registry \o [i \in DOMAIN arrays |->
                    [name |-> ParamName(Len(registry) + i), array |-> arrays[i]]]

\* ExprTable.set_expr fails on a name already present
CanSetExpr(table, name) == name \notin DOMAIN table

\* ExprTable.set_expr
SetExpr(table, name, value) == table @@ (name :> value)

\* ExprTable.get_expr fails on a name never written
CanGetExpr(table, name) == name \in DOMAIN table

\* ExprTable.get_expr
GetExpr(table, name) == table[name]

-----------------------------------------------------------------------------
(* The lowering rules.  A rule receives the argument from_keras built (a    *)
(* bare value or a list), the layer and the number of constants registered  *)
(* so far; it returns the values it produced and the arrays it registered,  *)
(* or raises.                                                               *)

\* the argument of a rule: a bare value (list = FALSE, one item) or a list
Bare(v) == [list |-> FALSE, items |-> <<v>>]
List(vs) == [list |-> TRUE, items |-> vs]

Returned(values, arrays) == [raised |-> "", outs |-> values, consts |-> arrays]
Raised(error, arrays) == [raised |-> error, outs |-> <<>>, consts |-> arrays]

\* tuple(dim if dim else 1 for dim in shape)
Concrete(shape) == [i \in DOMAIN shape |-> IF shape[i] = 0 THEN 1 ELSE shape[i]]

\* _as_list
AsList(arg) == arg.items

\* _get_pad_pair with the output size rounded down
GetPadPairFloorOut(input1d, kernel1d, stride1d) ==
    LET out1d == input1d \div stride1d
        pad == Max({(out1d - 1) * stride1d + kernel1d - input1d, 0})
        pad_before == pad \div 2
        pad_after == pad - pad_before
    IN <<pad_before, pad_after>>

\* _get_pad_pair with the larger half of the padding put first
GetPadPairSwapped(input1d, kernel1d, stride1d) ==
    LET out1d == (input1d + stride1d - 1) \div stride1d
        pad == Max({(out1d - 1) * stride1d + kernel1d - input1d, 0})
        pad_after == pad \div 2
        pad_before == pad - pad_after
    IN <<pad_before, pad_after>>

\* _get_pad_pair
GetPadPair(input1d, kernel1d, stride1d) ==
    LET out1d == (input1d + stride1d - 1) \div stride1d
        pad == Max({(out1d - 1) * stride1d + kernel1d - input1d, 0})
        pad_before == pad \div 2
        pad_after == pad - pad_before
    IN <<pad_before, pad_after>>

\* _convert_activation on a layer, _convert_recurrent_activation: the activation
\* lowerer, kept opaque
Activation(x) == Op("activation", <<>>, <<x>>)
RecurrentActivation(x) == Op("recurrent_activation", <<>>, <<x>>)

RECURSIVE FoldRightNested(_, _, _, _)
\* the merge fold nesting to the right: x0 op (x1 op (x2 ...))
FoldRightNested(op, ret, items, i) ==
    IF i > Len(items) THEN ret
    ELSE Op(op, <<>>, <<ret, FoldRightNested(op, items[i], items, i + 1)>>)

\* _convert_merge
RECURSIVE Fold(_, _, _, _)
Fold(op, ret, items, i) ==
    IF i > Len(items) THEN ret
    ELSE Fold(op, Op(op, <<>>, <<ret, items[i]>>), items, i + 1)

ConvertMerge(arg, layer, base) ==
    LET items == arg.items
        ret == items[1]
    IN CASE layer.kind = "Subtract" ->
              IF Len(items) # 2 THEN Raised("AssertionError", <<>>)
              ELSE Returned(<<Op("subtract", <<>>, <<ret, items[2]>>)>>, <<>>)
         [] layer.kind = "Add" -> Returned(<<Fold("add", ret, items, 2)>>, <<>>)
         [] layer.kind = "Multiply" -> Returned(<<Fold("multiply", ret, items, 2)>>, <<>>)
         [] layer.kind = "Maximum" -> Returned(<<Fold("maximum", ret, items, 2)>>, <<>>)
         [] layer.kind = "Average" ->
              Returned(<<Op("divide", <<>>,
                            <<Fold("add", ret, items, 2), Const(Len(items))>>)>>, <<>>)
         [] OTHER -> Raised("TypeError", <<>>)

\* _convert_dense (the declared activation is linear)
ConvertDense(arg, layer, base) ==
    LET weight == ConstRef(base + 1)
        input_dim == Len(layer.input_shape)
        input_shape == Concrete(layer.input_shape)
        squeezed == IF input_dim > 2 THEN Op("squeeze", <<0>>, <<arg.items[1]>>)
                    ELSE arg.items[1]
        dense == Op("dense", <<layer.units>>, <<squeezed, weight>>)
        biased == IF layer.use_bias
                  THEN Op("bias_add", <<>>, <<dense, ConstRef(base + 2)>>)
                  ELSE dense
        out == IF input_dim > 2 THEN Op("expand_dims", <<0>>, <<biased>>) ELSE biased
    IN IF input_dim > 2 /\ (input_dim # 3 \/ input_shape[1] # 1 \/ input_shape[2] # 1)
       THEN Raised("ValueError", <<Array(layer.name, 0, "transpose")>>)
       ELSE Returned(<<out>>,
                     <<Array(layer.name, 0, "transpose")>>
                         \o (IF layer.use_bias THEN <<Array(layer.name, 1, "")>> ELSE <<>>))

\* the convolution rule computing "same" padding from the undilated kernel
ConvertConvolutionUndilated(arg, layer, base) ==
    LET weight == ConstRef(base + 1)
        dilation == layer.dilation_rate
        in_h == layer.input_shape[2]
        in_w == layer.input_shape[3]
        tb == GetPadPair(in_h, layer.kernel_size[1], layer.strides[1])
        lr == GetPadPair(in_w, layer.kernel_size[2], layer.strides[2])
        symmetric == tb[1] = tb[2] /\ lr[1] = lr[2]
        padding == IF layer.padding = "same" /\ symmetric THEN <<tb[1], lr[1]>>
                   ELSE <<0, 0>>
        data == IF layer.padding = "same" /\ ~symmetric
                THEN Op("pad", <<0, 0, 0, 0, tb[1], tb[2], lr[1], lr[2]>>, <<arg.items[1]>>)
                ELSE arg.items[1]
        is_deconv == layer.kind = "Conv2DTranspose"
        is_depthconv == layer.kind = "DepthwiseConv2D"
        in_channels == layer.input_shape[4]
        conv == Op(IF is_deconv THEN "conv2d_transpose" ELSE "conv2d",
                   layer.kernel_size \o layer.strides \o dilation \o padding
                       \o (IF is_depthconv
                           THEN <<in_channels * layer.units, in_channels>>
                           ELSE <<layer.units>>),
                   <<data, weight>>)
        out == IF layer.use_bias
               THEN Op("bias_add", <<>>, <<conv, ConstRef(base + 2)>>)
               ELSE conv
    IN IF layer.padding \notin {"valid", "same"}
       THEN Raised("TypeError", <<Array(layer.name, 0, "transpose")>>)
       ELSE Returned(<<out>>,
                     <<Array(layer.name, 0, "transpose")>>
                         \o (IF layer.use_bias THEN <<Array(layer.name, 1, "")>> ELSE <<>>))

\* _convert_convolution (the declared activation is linear); units is the last
\* axis of the kernel: the filters, or the depth multiplier of DepthwiseConv2D
ConvertConvolution(arg, layer, base) ==
    LET weight == ConstRef(base + 1)
        dilation == layer.dilation_rate
        dilated_kernel_h == (layer.kernel_size[1] - 1) * dilation[1] + 1
        dilated_kernel_w == (layer.kernel_size[2] - 1) * dilation[2] + 1
        in_h == layer.input_shape[2]
        in_w == layer.input_shape[3]
        tb == GetPadPair(in_h, dilated_kernel_h, layer.strides[1])
        lr == GetPadPair(in_w, dilated_kernel_w, layer.strides[2])
        symmetric == tb[1] = tb[2] /\ lr[1] = lr[2]
        padding == IF layer.padding = "same" /\ symmetric THEN <<tb[1], lr[1]>>
                   ELSE <<0, 0>>
        data == IF layer.padding = "same" /\ ~symmetric
                THEN Op("pad", <<0, 0, 0, 0, tb[1], tb[2], lr[1], lr[2]>>, <<arg.items[1]>>)
                ELSE arg.items[1]
        is_deconv == layer.kind = "Conv2DTranspose"
        is_depthconv == layer.kind = "DepthwiseConv2D"
        in_channels == layer.input_shape[4]
        conv == Op(IF is_deconv THEN "conv2d_transpose" ELSE "conv2d",
                   layer.kernel_size \o layer.strides \o dilation \o padding
                       \o (IF is_depthconv
                           THEN <<in_channels * layer.units, in_channels>>
                           ELSE <<layer.units>>),
                   <<data, weight>>)
        out == IF layer.use_bias
               THEN Op("bias_add", <<>>, <<conv, ConstRef(base + 2)>>)
               ELSE conv
    IN IF layer.padding \notin {"valid", "same"}
       THEN Raised("TypeError", <<Array(layer.name, 0, "transpose")>>)
       ELSE Returned(<<out>>,
                     <<Array(layer.name, 0, "transpose")>>
                         \o (IF layer.use_bias THEN <<Array(layer.name, 1, "")>> ELSE <<>>))

RECURSIVE LstmLoopGatesSwapped(_, _, _, _, _, _, _)
\* the loop of the LSTM rule reading the gate chunks in the order
\* [input, cell, forget, output]
LstmLoopGatesSwapped(in_data, t, next_h, next_c, kernel_weight, recurrent_weight, in_bias) ==
    IF t > Len(in_data) THEN <<next_h, next_c>>
    ELSE LET ixh1 == Op("dense", <<>>, <<in_data[t], kernel_weight>>)
             ixh2 == Op("bias_add", <<>>,
                        <<Op("dense", <<>>, <<next_h, recurrent_weight>>), in_bias>>)
             gate == Op("add", <<>>, <<ixh1, ixh2>>)
             gates == Op("split", <<4, 1>>, <<gate>>)
             in_gate == RecurrentActivation(Item(gates, 0))
             in_transform == RecurrentActivation(Item(gates, 2))
             c == Op("add", <<>>,
                     <<Op("multiply", <<>>, <<in_transform, next_c>>),
                       Op("multiply", <<>>, <<in_gate, Activation(Item(gates, 1))>>)>>)
             out_gate == RecurrentActivation(Item(gates, 3))
             h == Op("multiply", <<>>, <<out_gate, Activation(c)>>)
         IN LstmLoopGatesSwapped(in_data, t + 1, h, c,
                                 kernel_weight, recurrent_weight, in_bias)

\* one pass of the loop of _convert_lstm: the state <<next_h, next_c>> after
\* the steps t..Len(in_data)
RECURSIVE LstmLoop(_, _, _, _, _, _, _)
LstmLoop(in_data, t, next_h, next_c, kernel_weight, recurrent_weight, in_bias) ==
    IF t > Len(in_data) THEN <<next_h, next_c>>
    ELSE LET ixh1 == Op("dense", <<>>, <<in_data[t], kernel_weight>>)
             ixh2 == Op("bias_add", <<>>,
                        <<Op("dense", <<>>, <<next_h, recurrent_weight>>), in_bias>>)
             gate == Op("add", <<>>, <<ixh1, ixh2>>)
             gates == Op("split", <<4, 1>>, <<gate>>)
             in_gate == RecurrentActivation(Item(gates, 0))
             in_transform == RecurrentActivation(Item(gates, 1))
             c == Op("add", <<>>,
                     <<Op("multiply", <<>>, <<in_transform, next_c>>),
                       Op("multiply", <<>>, <<in_gate, Activation(Item(gates, 2))>>)>>)
             out_gate == RecurrentActivation(Item(gates, 3))
             h == Op("multiply", <<>>, <<out_gate, Activation(c)>>)
         IN LstmLoop(in_data, t + 1, h, c, kernel_weight, recurrent_weight, in_bias)

\* _convert_lstm
ConvertLstm(arg, layer, base) ==
    LET fresh == IF arg.list THEN 0 ELSE 2
        c_op == ConstRef(base + 1)
        h_op == ConstRef(base + 2)
        inputs == IF arg.list THEN arg.items ELSE <<arg.items[1], h_op, c_op>>
        kernel_weight == ConstRef(base + fresh + 1)
        recurrent_weight == ConstRef(base + fresh + 2)
        in_bias == ConstRef(base + fresh + 3)
        time_steps == Concrete(layer.input_shape)[2]
        squeezed == Op("squeeze", <<0>>, <<inputs[1]>>)
        split == Op("split", <<time_steps, 0>>, <<squeezed>>)
        in_data == [t \in 1..time_steps |-> Item(split, t - 1)]
        last == LstmLoop(in_data, 1, inputs[2], inputs[3],
                         kernel_weight, recurrent_weight, in_bias)
        out == Op("reshape", Concrete(<<0, layer.units>>), <<last[1]>>)
    IN Returned(<<out, last[1], last[2]>>,
                (IF arg.list THEN <<>>
                 ELSE <<Array("zeros", layer.units, ""), Array("zeros", layer.units, "")>>)
                    \o <<Array(layer.name, 0, "transpose"),
                         Array(layer.name, 1, "transpose"),
                         Array(layer.name, 2, "")>>)

\* _convert_simple_rnn
ConvertSimpleRnn(arg, layer, base) ==
    LET fresh == IF arg.list THEN 0 ELSE 1
        inputs == IF arg.list THEN arg.items ELSE <<arg.items[1], ConstRef(base + 1)>>
        kernel_weight == ConstRef(base + fresh + 1)
        recurrent_weight == ConstRef(base + fresh + 2)
        in_bias == ConstRef(base + fresh + 3)
        in_data == Op("batch_flatten", <<>>, <<inputs[1]>>)
        ixh == Op("bias_add", <<>>,
                  <<Op("dense", <<layer.units>>, <<in_data, kernel_weight>>), in_bias>>)
        prev_op == Op("batch_flatten", <<>>, <<inputs[2]>>)
        ixh2 == Op("dense", <<layer.units>>, <<prev_op, recurrent_weight>>)
        output == Op("reshape", Concrete(<<0, layer.units>>),
                     <<Activation(Op("add", <<>>, <<ixh, ixh2>>))>>)
    IN Returned(<<output, output>>,
                (IF arg.list THEN <<>> ELSE <<Array("zeros", layer.units, "")>>)
                    \o <<Array(layer.name, 0, "transpose"),
                         Array(layer.name, 1, "transpose"),
                         Array(layer.name, 2, "")>>)

\* _convert_gru
ConvertGru(arg, layer, base) ==
    LET fresh == IF arg.list THEN 0 ELSE 1
        inputs == IF arg.list THEN arg.items ELSE <<arg.items[1], ConstRef(base + 1)>>
        kernel_weight == ConstRef(base + fresh + 1)
        recurrent_weight == ConstRef(base + fresh + 2)
        in_bias == ConstRef(base + fresh + 3)
        in_data == Op("batch_flatten", <<>>, <<inputs[1]>>)
        matrix_x == Op("bias_add", <<>>,
                       <<Op("dense", <<layer.units>>, <<in_data, kernel_weight>>), in_bias>>)
        gates == Op("split", <<layer.units, 2 * layer.units, 1>>, <<matrix_x>>)
        rec_weights == Op("split", <<2 * layer.units, 0>>, <<recurrent_weight>>)
        h_tm1_op == Op("batch_flatten", <<>>, <<inputs[2]>>)
        matrix_inner == Op("dense", <<2 * layer.units>>, <<h_tm1_op, Item(rec_weights, 0)>>)
        recurrent == Op("split", <<layer.units, 1>>, <<matrix_inner>>)
        rec_act_z == RecurrentActivation(
                         Op("add", <<>>, <<Item(gates, 0), Item(recurrent, 0)>>))
        rec_act_r == RecurrentActivation(
                         Op("add", <<>>, <<Item(gates, 1), Item(recurrent, 1)>>))
        recurrent_h == Op("dense", <<layer.units>>,
                          <<Op("multiply", <<>>, <<rec_act_r, h_tm1_op>>),
                            Item(rec_weights, 1)>>)
        act_hh == Activation(Op("add", <<>>, <<Item(gates, 2), recurrent_h>>))
        mixed == Op("add", <<>>,
                    <<Op("multiply", <<>>, <<rec_act_z, h_tm1_op>>),
                      Op("multiply", <<>>,
                         <<Op("subtract", <<>>, <<Const(1), rec_act_z>>), act_hh>>)>>)
        output == Op("reshape", Concrete(<<0, layer.units>>), <<mixed>>)
    IN Returned(<<output, output>>,
                (IF arg.list THEN <<>> ELSE <<Array("zeros", layer.units, "")>>)
                    \o <<Array(layer.name, 0, "transpose"),
                         Array(layer.name, 1, "transpose"),
                         Array(layer.name, 2, "")>>)

\* _default_skip
DefaultSkip(arg, layer, base) == Returned(AsList(arg), <<>>)

\* the keys of _convert_map
ConvertMapKeys ==
    {"Dense", "Activation", "ReLU", "LeakyReLU", "PReLU", "ELU", "ThresholdedReLU",
     "AveragePooling2D", "MaxPooling2D", "GlobalAveragePooling2D", "GlobalMaxPooling2D",
     "Conv2D", "Conv2DTranspose", "DepthwiseConv2D", "SeparableConv2D",
     "Flatten", "Reshape", "Concatenate", "BatchNormalization",
     "Add", "Subtract", "Multiply", "ZeroPadding2D", "UpSampling2D", "Cropping2D",
     "SimpleRNN", "LSTM", "GRU", "Average", "Maximum",
     "InputLayer", "Dropout", "SpatialDropout2D", "SpatialDropout1D"}

\* _convert_map[kind](inexpr, keras_layer, etab); the rules of the kinds the
\* models of this development hold are spelled out, the others kept opaque
ConvertMap(arg, layer, base) ==
    CASE layer.kind = "Dense" -> ConvertDense(arg, layer, base)
      [] layer.kind \in {"Conv2D", "Conv2DTranspose", "DepthwiseConv2D"} ->
             ConvertConvolution(arg, layer, base)
      [] layer.kind \in MergeKinds -> ConvertMerge(arg, layer, base)
      [] layer.kind = "LSTM" -> ConvertLstm(arg, layer, base)
      [] layer.kind = "SimpleRNN" -> ConvertSimpleRnn(arg, layer, base)
      [] layer.kind = "GRU" -> ConvertGru(arg, layer, base)
      [] layer.kind \in {"InputLayer", "Dropout", "SpatialDropout2D", "SpatialDropout1D"} ->
             DefaultSkip(arg, layer, base)
      [] OTHER -> Returned(<<Op(layer.kind, <<>>, arg.items)>>, <<>>)

-----------------------------------------------------------------------------
(* from_keras and keras_op_to_relay.                                        *)

\* line 661: the key of an input layer's variable
InputName(layer) == layer.name

\* lines 685-688: the key an incoming edge is resolved by
EdgeName(inbound_layer, n_idx, t) ==
    IF IsInputLayer(inbound_layer)
    THEN inbound_layer.name
    ELSE inbound_layer.name \o ":" \o ToString(n_idx) \o ":" \o ToString(t)

\* the outname without the call-site index
OutNameWithoutIndex(layer, n_idx) == layer.name

\* line 693: the outname handed to keras_op_to_relay
OutName(layer, n_idx) == layer.name \o ":" \o ToString(n_idx)

\* the slot key with slots numbered from 1
SlotNameFromOne(outname, t) == outname \o ":" \o ToString(t + 1)

\* line 624: the key of output slot t
SlotName(outname, t) == outname \o ":" \o ToString(t)

\* line 697: the key of a requested output coordinate
OutputName(oc) == oc[1].name \o ":" \o ToString(oc[2]) \o ":" \o ToString(oc[3])

\* the relevance test always passing
IsRelevantAlways(m, layer, n_idx) == TRUE

\* line 675: the call-site is relevant to the model
IsRelevant(m, layer, n_idx) == NodeKey(layer.name, n_idx) \in m.network_nodes

\* the unsupported-kind check rejecting nothing
UnsupportedLayersUnchecked(m) == {}

\* the unsupported-kind check looking at the first layer only
UnsupportedFirstLayer(m) ==
    {i \in DOMAIN m.layers \cap {1} : m.layers[i].layer.kind \notin ConvertMapKeys}

\* lines 596-599: the layers _check_unsupported_layers rejects
UnsupportedLayers(m) ==
    {i \in DOMAIN m.layers : m.layers[i].layer.kind \notin ConvertMapKeys}

\* the resolved values always passed as a list
RuleArgumentAlwaysList(values) == List(values)

\* lines 691-692: a single resolved value is passed bare, several as a list
RuleArgument(values) == IF Len(values) = 1 THEN Bare(values[1]) ELSE List(values)

\* the outputs always wrapped in a tuple
BodyAlwaysTuple(values) == Op("Tuple", <<>>, values)

\* line 699: a single output is the body itself, several make a tuple
Body(values) == IF Len(values) = 1 THEN values[1] ELSE Op("Tuple", <<>>, values)

RECURSIVE FreeVars(_)
\* ir_pass.free_vars: the names of the variables a value depends on
FreeVars(v) ==
    IF v.op = "var" THEN {v.name}
    ELSE UNION {FreeVars(v.args[i]) : i \in DOMAIN v.args}

\* line 700
Function(body) == [params |-> FreeVars(body), body |-> body]

\* line 701: the parameter dict, every array converted to float32
ParamDict(registry) ==
    [k \in {registry[i].name : i \in DOMAIN registry} |->
        LET i == Max({j \in DOMAIN registry : registry[j].name = k})
        IN [array |-> registry[i].array, dtype |-> "float32"]]

CurrentLayer == model.layers[li].layer
CurrentNodes == model.layers[li].inbound_nodes
CurrentNode == CurrentNodes[node_idx + 1]
CurrentSite == OutName(CurrentLayer, node_idx)

\* an error that is noted while the conversion goes on to assemble its result
FailSoft(error) ==
    /\ pc' = "collect"
    /\ err' = error

\* raise: the error aborts from_keras
Fail(error) ==
    /\ pc' = "failed"
    /\ err' = error

Init ==
    /\ model \in Models
    /\ backend \in {"tensorflow", "theano"}
    /\ image_data_format \in {"channels_last", "channels_first"}
    /\ pc = "backend"
    /\ li = 1
    /\ node_idx = 0
    /\ ei = 1
    /\ inexpr = <<>>
    /\ outs = <<>>
    /\ t_idx = 0
    /\ exprs = <<>>
    /\ params = <<>>
    /\ outexpr = <<>>
    /\ result = <<>>
    /\ err = ""
    /\ passed = <<>>
    /\ written = <<>>
    /\ resolved = {}
    /\ recorded = <<>>
    /\ pad_in = <<1, 1, 1>>
    /\ pad_out = <<>>
    /\ rule_in = <<>>
    /\ rule_out = <<>>

\* lines 652-653
CheckBackend ==
    /\ pc = "backend"
    /\ IF backend # "tensorflow"
       THEN Fail("backend")
       ELSE pc' = "data_format" /\ err' = err
    /\ UNCHANGED <<model, backend, image_data_format, li, node_idx, ei, inexpr, outs,
                   t_idx, exprs, params, outexpr, result, passed, written, resolved,
                   recorded, pure_vars>>

\* lines 654-655
CheckDataFormat ==
    /\ pc = "data_format"
    /\ IF image_data_format # "channels_last"
       THEN Fail("data_format")
       ELSE pc' = "check" /\ err' = err
    /\ UNCHANGED <<model, backend, image_data_format, li, node_idx, ei, inexpr, outs,
                   t_idx, exprs, params, outexpr, result, passed, written, resolved,
                   recorded, pure_vars>>

\* lines 656-658: _check_unsupported_layers, then the fresh expression table
CheckUnsupportedLayers ==
    /\ pc = "check"
    /\ IF UnsupportedLayers(model) # {}
       THEN Fail("unsupported_layer") /\ UNCHANGED <<exprs, params, li>>
       ELSE /\ pc' = "layer"
            /\ err' = err
            /\ exprs' = <<>>
            /\ params' = <<>>
            /\ li' = 1
    /\ UNCHANGED <<model, backend, image_data_format, node_idx, ei, inexpr, outs,
                   t_idx, outexpr, result, passed, written, resolved, recorded,
                   pure_vars>>

\* lines 659-663: an input layer becomes a free variable under its bare name
SetInput ==
    /\ pc = "layer"
    /\ li <= Len(model.layers)
    /\ IsInputLayer(CurrentLayer)
    /\ written' = Append(written, InputName(CurrentLayer))
    /\ IF CanSetExpr(exprs, InputName(CurrentLayer))
       THEN /\ exprs' = SetExpr(exprs, InputName(CurrentLayer),
                                Var(InputName(CurrentLayer)))
            /\ li' = li + 1
            /\ UNCHANGED <<pc, err>>
       ELSE Fail("DuplicateSymbol") /\ UNCHANGED <<exprs, li>>
    /\ UNCHANGED <<model, backend, image_data_format, node_idx, ei, inexpr, outs,
                   t_idx, params, outexpr, result, passed, resolved, recorded,
                   pure_vars>>

\* lines 664-671: a non-input layer; its inbound nodes are enumerated from 0
EnterLayer ==
    /\ pc = "layer"
    /\ li <= Len(model.layers)
    /\ ~IsInputLayer(CurrentLayer)
    /\ pc' = "node"
    /\ node_idx' = 0
    /\ UNCHANGED <<model, backend, image_data_format, li, ei, inexpr, outs, t_idx,
                   exprs, params, outexpr, result, err, passed, written, resolved,
                   recorded, pure_vars>>

\* lines 675-676: a call-site that is not relevant to the model is skipped
SkipNode ==
    /\ pc = "node"
    /\ node_idx < Len(CurrentNodes)
    /\ ~IsRelevant(model, CurrentLayer, node_idx)
    /\ node_idx' = node_idx + 1
    /\ UNCHANGED <<model, backend, image_data_format, pc, li, ei, inexpr, outs, t_idx,
                   exprs, params, outexpr, result, err, passed, written, resolved,
                   recorded, pure_vars>>

\* lines 677, 683: a relevant call-site; its incoming edges are resolved in order
StartNode ==
    /\ pc = "node"
    /\ node_idx < Len(CurrentNodes)
    /\ IsRelevant(model, CurrentLayer, node_idx)
    /\ inexpr' = <<>>
    /\ ei' = 1
    /\ pc' = "edge"
    /\ UNCHANGED <<model, backend, image_data_format, li, node_idx, outs, t_idx,
                   exprs, params, outexpr, result, err, passed, written, resolved,
                   recorded, pure_vars>>

\* lines 684-690: one incoming edge
ResolveEdge ==
    /\ pc = "edge"
    /\ ei <= Len(CurrentNode.inbound_layers)
    /\ LET expr_name == EdgeName(CurrentNode.inbound_layers[ei],
                                 CurrentNode.node_indices[ei],
                                 CurrentNode.tensor_indices[ei])
       IN IF CanGetExpr(exprs, expr_name)
          THEN /\ inexpr' = Append(inexpr, GetExpr(exprs, expr_name))
               /\ ei' = ei + 1
               /\ UNCHANGED <<pc, err>>
          ELSE Fail("UnknownSymbol") /\ UNCHANGED <<inexpr, ei>>
    /\ resolved' = resolved \cup {CurrentSite}
    /\ UNCHANGED <<model, backend, image_data_format, li, node_idx, outs, t_idx,
                   exprs, params, outexpr, result, passed, written, recorded,
                   pure_vars>>

\* the rule invoked, its constants registered only at the first call-site of
\* the layer that is lowered
LowerOncePerLayer ==
    /\ pc = "edge"
    /\ ei > Len(CurrentNode.inbound_layers)
    /\ IF CurrentLayer.kind \notin ConvertMapKeys
       THEN Fail("NotImplementedError") /\ UNCHANGED <<params, passed, outs, t_idx>>
       ELSE LET arg == RuleArgument(inexpr)
                r == ConvertMap(arg, CurrentLayer, Len(params))
                seen == \E n \in 0..(Len(CurrentNodes) - 1) :
                            OutName(CurrentLayer, n) \in DOMAIN passed
            IN /\ params' = IF seen THEN params ELSE Register(params, r.consts)
               /\ passed' = passed @@ (CurrentSite :> arg)
               /\ IF r.raised # ""
                  THEN Fail("rule") /\ UNCHANGED <<outs, t_idx>>
                  ELSE /\ outs' = r.outs
                       /\ t_idx' = 0
                       /\ pc' = "record"
                       /\ err' = err
    /\ UNCHANGED <<model, backend, image_data_format, li, node_idx, ei, inexpr,
                   exprs, outexpr, result, written, resolved, recorded, pure_vars>>

\* lines 691-693 and 619-622: the rule of the layer's kind is invoked
Lower ==
    /\ pc = "edge"
    /\ ei > Len(CurrentNode.inbound_layers)
    /\ IF CurrentLayer.kind \notin ConvertMapKeys
       THEN Fail("NotImplementedError") /\ UNCHANGED <<params, passed, outs, t_idx>>
       ELSE LET arg == RuleArgument(inexpr)
                r == ConvertMap(arg, CurrentLayer, Len(params))
            IN /\ params' = Register(params, r.consts)
               /\ passed' = passed @@ (CurrentSite :> arg)
               /\ IF r.raised # ""
                  THEN Fail("rule") /\ UNCHANGED <<outs, t_idx>>
                  ELSE /\ outs' = r.outs
                       /\ t_idx' = 0
                       /\ pc' = "record"
                       /\ err' = err
    /\ UNCHANGED <<model, backend, image_data_format, li, node_idx, ei, inexpr,
                   exprs, outexpr, result, written, resolved, recorded, pure_vars>>

\* lines 623-625: one returned value is recorded under its slot
Record ==
    /\ pc = "record"
    /\ t_idx < Len(outs)
    /\ written' = Append(written, SlotName(CurrentSite, t_idx))
    /\ IF CanSetExpr(exprs, SlotName(CurrentSite, t_idx))
       THEN /\ exprs' = SetExpr(exprs, SlotName(CurrentSite, t_idx), outs[t_idx + 1])
            /\ t_idx' = t_idx + 1
            /\ UNCHANGED <<pc, err>>
       ELSE Fail("DuplicateSymbol") /\ UNCHANGED <<exprs, t_idx>>
    /\ UNCHANGED <<model, backend, image_data_format, li, node_idx, ei, inexpr, outs,
                   params, outexpr, result, passed, resolved, recorded, pure_vars>>

\* line 671: every returned value is recorded; on to the layer's next call-site
NextNode ==
    /\ pc = "record"
    /\ t_idx >= Len(outs)
    /\ recorded' = recorded @@ (CurrentSite :> outs)
    /\ node_idx' = node_idx + 1
    /\ pc' = "node"
    /\ UNCHANGED <<model, backend, image_data_format, li, ei, inexpr, outs, t_idx,
                   exprs, params, outexpr, result, err, passed, written, resolved,
                   pure_vars>>

\* line 659: the layer's call-sites are exhausted; on to the next layer
NextLayer ==
    /\ pc = "node"
    /\ node_idx >= Len(CurrentNodes)
    /\ li' = li + 1
    /\ pc' = "layer"
    /\ UNCHANGED <<model, backend, image_data_format, node_idx, ei, inexpr, outs,
                   t_idx, exprs, params, outexpr, result, err, passed, written,
                   resolved, recorded, pure_vars>>

\* line 659: the layers are exhausted
EndTraversal ==
    /\ pc = "layer"
    /\ li > Len(model.layers)
    /\ pc' = "collect"
    /\ outexpr' = <<>>
    /\ UNCHANGED <<model, backend, image_data_format, li, node_idx, ei, inexpr, outs,
                   t_idx, exprs, params, result, err, passed, written, resolved,
                   recorded, pure_vars>>

\* lines 697-698: one requested output coordinate is looked up
CollectOutput ==
    /\ pc = "collect"
    /\ Len(outexpr) < Len(model.output_coordinates)
    /\ LET name == OutputName(model.output_coordinates[Len(outexpr) + 1])
       IN IF CanGetExpr(exprs, name)
          THEN outexpr' = Append(outexpr, GetExpr(exprs, name)) /\ UNCHANGED <<pc, err>>
          ELSE Fail("UnknownOutput") /\ UNCHANGED outexpr
    /\ UNCHANGED <<model, backend, image_data_format, li, node_idx, ei, inexpr, outs,
                   t_idx, exprs, params, result, passed, written, resolved, recorded,
                   pure_vars>>

\* lines 699-702: the function and the parameter dict are returned
Return ==
    /\ pc = "collect"
    /\ Len(outexpr) >= Len(model.output_coordinates)
    /\ result' = <<Function(Body(outexpr)), ParamDict(params)>>
    /\ pc' = "done"
    /\ UNCHANGED <<model, backend, image_data_format, li, node_idx, ei, inexpr, outs,
                   t_idx, exprs, params, outexpr, err, passed, written, resolved,
                   recorded, pure_vars>>

Next ==
    \/ CheckBackend
    \/ CheckDataFormat
    \/ CheckUnsupportedLayers
    \/ SetInput
    \/ EnterLayer
    \/ SkipNode
    \/ StartNode
    \/ ResolveEdge
    \/ Lower
    \/ Record
    \/ NextNode
    \/ NextLayer
    \/ EndTraversal
    \/ CollectOutput
    \/ Return

Spec == Init /\ [][Next]_vars

-----------------------------------------------------------------------------
(* The padding calculator on its own.                                       *)

NoModel == [layers |-> <<>>, network_nodes |-> {}, output_coordinates |-> <<>>]

PadInit ==
    /\ model = NoModel
    /\ backend = "tensorflow"
    /\ image_data_format = "channels_last"
    /\ pc = "idle"
    /\ li = 1
    /\ node_idx = 0
    /\ ei = 1
    /\ inexpr = <<>>
    /\ outs = <<>>
    /\ t_idx = 0
    /\ exprs = <<>>
    /\ params = <<>>
    /\ outexpr = <<>>
    /\ result = <<>>
    /\ err = ""
    /\ passed = <<>>
    /\ written = <<>>
    /\ resolved = {}
    /\ recorded = <<>>
    /\ pad_in \in (1..MaxInput) \X (1..MaxKernel) \X (1..MaxStride)
    /\ pad_out = <<>>
    /\ rule_in = <<>>
    /\ rule_out = <<>>

\* lines 21-26: _get_pad_pair(input1d, kernel1d, stride1d)
CallGetPadPair ==
    /\ pad_out = <<>>
    /\ pad_out' = GetPadPair(pad_in[1], pad_in[2], pad_in[3])
    /\ UNCHANGED <<pad_in, walker_vars, rule_vars>>

PadNext == CallGetPadPair

PadSpec == PadInit /\ [][PadNext]_vars

-----------------------------------------------------------------------------
(* The lowering rules on their own: one rule is called once on one layer    *)
(* and one argument, with an empty constant registry.                       *)

ConvKinds == {"Conv2D", "Conv2DTranspose", "DepthwiseConv2D"}

\* the strides and dilation rates a convolution layer is built with: Keras
\* refuses a stride other than 1 together with a dilation rate other than 1
StridesAndDilations ==
    {<<s, <<1, 1>> >> : s \in {<<1, 1>>, <<2, 2>>, <<1, 2>>}}
    \cup {<< <<1, 1>>, d>> : d \in {<<2, 2>>, <<1, 2>>}}

\* a convolution layer object as _convert_convolution reads it; the padding
\* attribute also takes a mode that is neither "valid" nor "same"
ConvLayers ==
    {[LayerDesc("conv_1", kind, use_bias, padding, <<0, in_h, in_w, 2>>)
         EXCEPT !.kernel_size = <<kernel_h, kernel_w>>,
                !.strides = sd[1],
                !.dilation_rate = sd[2]] :
        kind \in ConvKinds, use_bias \in BOOLEAN,
        padding \in {"valid", "same", "causal"},
        in_h \in 1..MaxConvInput, in_w \in 1..MaxConvInput,
        kernel_h \in 1..MaxConvKernel, kernel_w \in 1..MaxConvKernel,
        sd \in StridesAndDilations}

ConvCalls == {[layer |-> l, arg |-> Bare(Var("data"))] : l \in ConvLayers}

\* a merge rule called on a list of n distinct values
MergeCalls ==
    {[layer |-> Plain(kind, "merge_", 1, <<0, 4>>),
      arg |-> List([i \in 1..n |-> Var("x" \o ToString(i))])] :
        kind \in MergeKinds, n \in 2..(MaxMergeInputs + 1)}

\* the LSTM rule called on the sequence alone, or on the sequence and the
\* initial state [h, c]
LstmCalls ==
    {[layer |-> Recurrent("LSTM", "lstm_", 1, <<0, time_steps, 4>>), arg |-> a] :
        time_steps \in 1..MaxTimeSteps,
        a \in {Bare(Var("seq")), List(<<Var("seq"), Var("h0"), Var("c0")>>)}}

RuleInit ==
    /\ model = NoModel
    /\ backend = "tensorflow"
    /\ image_data_format = "channels_last"
    /\ pc = "idle"
    /\ li = 1
    /\ node_idx = 0
    /\ ei = 1
    /\ inexpr = <<>>
    /\ outs = <<>>
    /\ t_idx = 0
    /\ exprs = <<>>
    /\ params = <<>>
    /\ outexpr = <<>>
    /\ result = <<>>
    /\ err = ""
    /\ passed = <<>>
    /\ written = <<>>
    /\ resolved = {}
    /\ recorded = <<>>
    /\ pad_in = <<1, 1, 1>>
    /\ pad_out = <<>>
    /\ rule_in \in ConvCalls \cup MergeCalls \cup LstmCalls
    /\ rule_out = <<>>

\* lines 171-232: _convert_convolution(inexpr, keras_layer, etab)
CallConvolution ==
    /\ rule_out = <<>>
    /\ rule_in.layer.kind \in ConvKinds
    /\ rule_out' = <<ConvertConvolution(rule_in.arg, rule_in.layer, 0)>>
    /\ UNCHANGED <<rule_in, walker_vars, pad_vars>>

\* lines 124-140: _convert_merge(inexpr, keras_layer, _)
CallMerge ==
    /\ rule_out = <<>>
    /\ rule_in.layer.kind \in MergeKinds
    /\ rule_out' = <<ConvertMerge(rule_in.arg, rule_in.layer, 0)>>
    /\ UNCHANGED <<rule_in, walker_vars, pad_vars>>

\* lines 429-461: _convert_lstm(inexpr, keras_layer, etab)
CallLstm ==
    /\ rule_out = <<>>
    /\ rule_in.layer.kind = "LSTM"
    /\ rule_out' = <<ConvertLstm(rule_in.arg, rule_in.layer, 0)>>
    /\ UNCHANGED <<rule_in, walker_vars, pad_vars>>

RuleNext ==
    \/ CallConvolution
    \/ CallMerge
    \/ CallLstm

RuleSpec == RuleInit /\ [][RuleNext]_vars

-----------------------------------------------------------------------------
(* The claims.                                                              *)

\* the key 'layer name:call-site index:output slot'
KeyOf(name, n, t) == name \o ":" \o ToString(n) \o ":" \o ToString(t)

\* the call-sites <<position of the layer in model.layers, node index>> of the
\* model's non-input layers
Sites ==
    UNION {{<<i, n>> : n \in 0..(Len(model.layers[i].inbound_nodes) - 1)} :
              i \in {j \in DOMAIN model.layers :
                        model.layers[j].layer.kind # "InputLayer"}}

SiteLayer(site) == model.layers[site[1]].layer
SiteNode(site) == model.layers[site[1]].inbound_nodes[site[2] + 1]
SiteName(site) == SiteLayer(site).name \o ":" \o ToString(site[2])
SiteRelevant(site) ==
    (SiteLayer(site).name \o "_ib-" \o ToString(site[2])) \in model.network_nodes

InputNames ==
    {model.layers[i].layer.name :
        i \in {j \in DOMAIN model.layers : model.layers[j].layer.kind = "InputLayer"}}

\* the key an edge of a call-site is to be resolved by
ProducerKey(node, e) ==
    IF node.inbound_layers[e].kind = "InputLayer"
    THEN node.inbound_layers[e].name
    ELSE KeyOf(node.inbound_layers[e].name, node.node_indices[e], node.tensor_indices[e])

\* C1: in the traversal of a valid model in its declared layer order, a producer
\* key is read only after it has been written: whenever from_keras is about to
\* resolve an incoming edge, the edge's key is in the symbol table, and no edge
\* lookup fails on an unknown key.
C1_ReadsAfterWrites ==
    /\ (pc = "edge" /\ ei <= Len(CurrentNode.inbound_layers))
           => ProducerKey(CurrentNode, ei) \in DOMAIN exprs
    /\ err # "UnknownSymbol"

HasUnsupportedKind ==
    \E i \in DOMAIN model.layers : model.layers[i].layer.kind \notin ConvertMapKeys

\* C2: a model holding a layer of a kind outside _convert_map, at any position,
\* never gets past the pre-checks: no symbol-table entry is written, no constant
\* is registered and nothing is returned.
C2_UnsupportedFailsBeforeAnyWrite ==
    HasUnsupportedKind =>
        /\ pc \in {"backend", "data_format", "check", "failed"}
        /\ exprs = <<>>
        /\ written = <<>>
        /\ params = <<>>
        /\ result = <<>>

\* C2 witness: the conversion has failed on an unsupported kind that stands last
\* in the layer order, behind supported layers.
C2_Witness ==
    /\ pc = "failed"
    /\ err = "unsupported_layer"
    /\ Len(model.layers) >= 3
    /\ model.layers[Len(model.layers)].layer.kind \notin ConvertMapKeys
    /\ \A i \in 1..(Len(model.layers) - 1) : model.layers[i].layer.kind \in ConvertMapKeys

\* the (layer name, call-site index, output slot) triples of the model
SlotTriples ==
    UNION {{<<SiteLayer(site).name, site[2], t>> :
               t \in 0..(NumOutputs(SiteLayer(site).kind) - 1)} : site \in Sites}

\* C3: no key is written twice: the keys handed to set_expr are pairwise
\* distinct, each is the bare name of an input layer or the key of a (layer,
\* call-site, slot) triple, distinct triples have distinct keys, none of which
\* is an input layer's name, and set_expr never meets a key already present.
C3_KeysWrittenOnce ==
    /\ \A i, j \in DOMAIN written : i # j => written[i] # written[j]
    /\ err # "DuplicateSymbol"
    /\ \A i \in DOMAIN written :
           \/ written[i] \in InputNames
           \/ \E tr \in SlotTriples : written[i] = KeyOf(tr[1], tr[2], tr[3])
    /\ \A tr1, tr2 \in SlotTriples :
           tr1 # tr2 => KeyOf(tr1[1], tr1[2], tr1[3]) # KeyOf(tr2[1], tr2[2], tr2[3])
    /\ \A tr \in SlotTriples : KeyOf(tr[1], tr[2], tr[3]) \notin InputNames
    /\ DOMAIN exprs = Range(written)

\* C3 witness: a conversion has finished in which one layer was lowered at two
\* call-sites.
C3_Witness ==
    /\ pc = "done"
    /\ \E s1, s2 \in Sites :
           /\ s1[1] = s2[1]
           /\ s1[2] # s2[2]
           /\ SiteName(s1) \in DOMAIN recorded
           /\ SiteName(s2) \in DOMAIN recorded

\* C4 (state part): a call-site that is not relevant has had no edge resolved, has
\* had no rule invoked, and the symbol table holds no key of it.
C4_SkippedLeavesNoTrace ==
    \A site \in Sites :
        ~SiteRelevant(site) =>
            /\ SiteName(site) \notin resolved
            /\ SiteName(site) \notin DOMAIN passed
            /\ SiteName(site) \notin DOMAIN recorded
            /\ \A t \in 0..3 : KeyOf(SiteLayer(site).name, site[2], t) \notin DOMAIN exprs
            /\ \A i \in DOMAIN written :
                   \A t \in 0..3 : written[i] # KeyOf(SiteLayer(site).name, site[2], t)

\* C4 (step part): the step taken at a call-site that is not relevant registers no
\* constant and changes nothing but the call-site index.
C4_SkipStep ==
    (/\ pc = "node"
     /\ node_idx < Len(CurrentNodes)
     /\ ~SiteRelevant(<<li, node_idx>>))
        => /\ params' = params
           /\ exprs' = exprs
           /\ passed' = passed
           /\ resolved' = resolved
           /\ pc' = "node"
           /\ node_idx' = node_idx + 1

\* C4: a call-site of a non-input layer that is not among the model's relevant
\* network nodes is skipped entirely: no edge resolved, no rule invoked, no
\* constant registered, no key of it in the symbol table.
C4_IrrelevantSkipped == []C4_SkippedLeavesNoTrace /\ [][C4_SkipStep]_vars

\* C4 witness: a conversion has finished on a model one of whose layers has a
\* call-site that is not relevant, next to a relevant one that was lowered.
C4_Witness ==
    /\ pc = "done"
    /\ \E s1, s2 \in Sites :
           /\ s1[1] = s2[1]
           /\ ~SiteRelevant(s1)
           /\ SiteRelevant(s2)
           /\ SiteName(s2) \in DOMAIN recorded

\* C5: once a call-site is lowered and recorded, the symbol table holds each
\* value the rule returned under (layer name, call-site index, slot), slots
\* numbered from 0 in the returned order and no slot beyond: 3 entries for LSTM,
\* 2 for SimpleRNN and GRU, 1 for the single-output rules.
C5_OutputsRecorded ==
    /\ \A site \in Sites :
           SiteName(site) \in DOMAIN recorded =>
               LET name == SiteLayer(site).name
                   kind == SiteLayer(site).kind
                   ret == recorded[SiteName(site)]
               IN /\ Len(ret) = (CASE kind = "LSTM" -> 3
                                   [] kind \in {"SimpleRNN", "GRU"} -> 2
                                   [] OTHER -> 1)
                  /\ \A t \in 0..(Len(ret) - 1) :
                         /\ KeyOf(name, site[2], t) \in DOMAIN exprs
                         /\ exprs[KeyOf(name, site[2], t)] = ret[t + 1]
                  /\ KeyOf(name, site[2], Len(ret)) \notin DOMAIN exprs
    /\ (pc = "record") =>
           \A t \in 0..(t_idx - 1) :
               /\ KeyOf(CurrentLayer.name, node_idx, t) \in DOMAIN exprs
               /\ exprs[KeyOf(CurrentLayer.name, node_idx, t)] = outs[t + 1]

\* C5 witness: an LSTM call-site has been recorded with three distinct values.
C5_Witness ==
    \E site \in Sites :
        /\ SiteLayer(site).kind = "LSTM"
        /\ SiteName(site) \in DOMAIN recorded
        /\ Len(recorded[SiteName(site)]) = 3
        /\ recorded[SiteName(site)][1] # recorded[SiteName(site)][2]
        /\ recorded[SiteName(site)][2] # recorded[SiteName(site)][3]

\* C6: the rule of a call-site with n incoming edges receives exactly the n
\* resolved values in edge order, bare when n = 1 and as a list when n >= 2; an
\* edge from an InputLayer is resolved by the producer's bare name, any other
\* by (producer name, producer call-site index, producer output slot).
C6_RuleReceivesResolvedInputs ==
    \A site \in Sites :
        SiteName(site) \in DOMAIN passed =>
            LET node == SiteNode(site)
                n == Len(node.inbound_layers)
                arg == passed[SiteName(site)]
            IN /\ Len(arg.items) = n
               /\ arg.list = (n >= 2)
               /\ \A e \in 1..n :
                      /\ ProducerKey(node, e) \in DOMAIN exprs
                      /\ arg.items[e] = exprs[ProducerKey(node, e)]

\* C6 witness: an Add merge fed by two Dense layers has received exactly 2
\* values, and a rule fed by an InputLayer has received its variable bare.
C6_Witness ==
    /\ \E site \in Sites :
           /\ SiteLayer(site).kind = "Add"
           /\ SiteName(site) \in DOMAIN passed
           /\ passed[SiteName(site)].list
           /\ Len(passed[SiteName(site)].items) = 2
           /\ \A e \in 1..2 : SiteNode(site).inbound_layers[e].kind = "Dense"
           /\ passed[SiteName(site)].items[1] # passed[SiteName(site)].items[2]
    /\ \E site \in Sites :
           /\ SiteName(site) \in DOMAIN passed
           /\ ~passed[SiteName(site)].list
           /\ SiteNode(site).inbound_layers[1].kind = "InputLayer"
           /\ passed[SiteName(site)].items[1].op = "var"

\* the symbol-table values of the requested output coordinates, in order
RequestedValues ==
    [i \in DOMAIN model.output_coordinates |->
        exprs[KeyOf(model.output_coordinates[i][1].name,
                    model.output_coordinates[i][2],
                    model.output_coordinates[i][3])]]

\* C7: the body of the returned function is the symbol-table values of the
\* requested output coordinates in the requested order, bare for one coordinate
\* and an ordered tuple for two or more; the returned parameter mapping holds
\* every constant registered during the traversal.
C7_ResultIsRequestedOutputs ==
    result # <<>> =>
        /\ Len(model.output_coordinates) = 1 => result[1].body = RequestedValues[1]
        /\ Len(model.output_coordinates) >= 2 =>
               /\ result[1].body.op = "Tuple"
               /\ result[1].body.args = RequestedValues
        /\ \A i \in DOMAIN params :
               /\ params[i].name \in DOMAIN result[2]
               /\ result[2][params[i].name].array = params[i].array
        /\ Cardinality(DOMAIN result[2]) = Len(params)

\* C7 witness: two outputs, requested in the order opposite to the layer order,
\* have been returned, together with constants.
C7_Witness ==
    /\ result # <<>>
    /\ Len(model.output_coordinates) = 2
    /\ model.output_coordinates[1][1].name = model.layers[3].layer.name
    /\ model.output_coordinates[2][1].name = model.layers[2].layer.name
    /\ result[1].body.args[1] # result[1].body.args[2]
    /\ params # <<>>

\* C8 (state part): a result exists only in the final state of a conversion in
\* which no error was raised, every relevant call-site was lowered and recorded
\* and every requested output was resolved; an error leaves no result.
C8_ResultOnlyWhenComplete ==
    /\ result # <<>> =>
           /\ pc = "done"
           /\ err = ""
           /\ \A site \in Sites :
                  SiteRelevant(site) =>
                      /\ SiteName(site) \in DOMAIN passed
                      /\ SiteName(site) \in DOMAIN recorded
           /\ Len(outexpr) = Len(model.output_coordinates)
           /\ outexpr = RequestedValues
    /\ err # "" <=> pc = "failed"
    /\ pc = "failed" => result = <<>>
    /\ pc = "done" => result # <<>>

\* C8 (step part): a raised error ends the conversion: nothing happens after it.
C8_FailureIsFinal == pc = "failed" => UNCHANGED vars

\* C8: conversion is all-or-nothing: an error at any step aborts from_keras with
\* no result, and a result is returned only after every relevant call-site has
\* been lowered and recorded and every requested output resolved.
C8_AllOrNothing == []C8_ResultOnlyWhenComplete /\ [][C8_FailureIsFinal]_vars

\* C8 witness: a lowering rule has raised after symbols were written and
\* constants registered, and there is no result.
C8_Witness ==
    /\ pc = "failed"
    /\ err = "rule"
    /\ exprs # <<>>
    /\ params # <<>>
    /\ recorded # <<>>
    /\ result = <<>>

\* the least q with q * b >= a, for positive b
CeilDiv(a, b) == CHOOSE q \in 0..a : q * b >= a /\ (q - 1) * b < a

\* the greatest q with q * b <= a, for positive b
FloorDiv(a, b) == CHOOSE q \in (-(a * a) - 1)..(a * a + 1) : q * b <= a /\ (q + 1) * b > a

\* C9: for positive input_size, kernel_size and stride the returned pair satisfies
\* ceil(input_size/stride) = floor((input_size + pad_before + pad_after -
\* kernel_size)/stride) + 1.
C9_SamePaddingOutputSize ==
    pad_out # <<>> =>
        CeilDiv(pad_in[1], pad_in[3])
            = FloorDiv(pad_in[1] + pad_out[1] + pad_out[2] - pad_in[2], pad_in[3]) + 1

\* C9 witness: the calculator has returned for a stride above 1 that does not
\* divide the input size, with a kernel that needs padding.
C9_Witness ==
    /\ pad_out # <<>>
    /\ pad_in[3] > 1
    /\ pad_in[1] % pad_in[3] # 0
    /\ pad_out[1] + pad_out[2] > 0

\* total_pad of the specification's formula
TotalPad(input_size, kernel_size, stride) ==
    LET out == CeilDiv(input_size, stride)
        need == (out - 1) * stride + kernel_size - input_size
    IN IF need > 0 THEN need ELSE 0

\* C10: pad_before = total_pad // 2 and pad_after = total_pad - pad_before with
\* out = ceil(input_size/stride) and total_pad = max((out-1)*stride + kernel_size
\* - input_size, 0); both are non-negative and pad_before <= pad_after <=
\* pad_before + 1.
C10_PadPairFormula ==
    pad_out # <<>> =>
        LET total_pad == TotalPad(pad_in[1], pad_in[2], pad_in[3]) IN
        /\ 2 * pad_out[1] <= total_pad
        /\ total_pad < 2 * pad_out[1] + 2
        /\ pad_out[2] = total_pad - pad_out[1]
        /\ pad_out[1] >= 0
        /\ pad_out[2] >= 0
        /\ pad_out[1] <= pad_out[2]
        /\ pad_out[2] <= pad_out[1] + 1

\* C10 witness: the calculator has returned an odd total padding of at least 3,
\* split unevenly.
C10_Witness ==
    /\ pad_out # <<>>
    /\ pad_out[2] = pad_out[1] + 1
    /\ pad_out[1] >= 1

\* C11 as stated: for "same" padding with input size 7, kernel 3 and stride 2 the
\* padding computation yields pad_before = 0 and pad_after = 1.
C11_AsStated ==
    (pad_in = <<7, 3, 2>> /\ pad_out # <<>>) => pad_out = <<0, 1>>

\* C11 as amended: for "same" padding with input size 7, kernel 3 and stride 2 the
\* padding computation yields pad_before = 1 and pad_after = 1 (out = 4, total
\* padding 2, split evenly).
C11_SevenThreeTwo ==
    (pad_in = <<7, 3, 2>> /\ pad_out # <<>>) => pad_out = <<1, 1>>

\* C11 witness: the calculator has returned for input size 7, kernel 3, stride 2.
C11_Witness ==
    /\ pad_in = <<7, 3, 2>>
    /\ pad_out # <<>>

\* the convolution operator of a returned value, under the bias addition if any
ConvOf(r) == IF rule_in.layer.use_bias THEN r.outs[1].args[1] ELSE r.outs[1]

\* the padding attribute of a convolution operator
PaddingOf(conv) == SubSeq(conv.attrs, 7, 8)

\* the kernel extent along one axis once dilated
DilatedKernel(kernel, dilation) == (kernel - 1) * dilation + 1

\* C12: with "same" padding the convolution rule computes the pads per axis from
\* the dilated kernel size (kernel - 1) * dilation + 1; when the pads are
\* asymmetric on either axis it inserts a pad operator of widths ((0,0), (0,0),
\* (pad_top, pad_bottom), (pad_left, pad_right)) and the convolution keeps padding
\* [0, 0]; when they are symmetric on both axes there is no pad operator and the
\* convolution's padding is (pad_top, pad_left); "valid" gives padding [0, 0] and
\* no pad operator; any other padding mode fails.
C12_ConvolutionPadding ==
    (rule_out # <<>> /\ rule_in.layer.kind \in ConvKinds) =>
        LET layer == rule_in.layer
            r == rule_out[1]
            data == rule_in.arg.items[1]
            conv == ConvOf(r)
            total_h == TotalPad(layer.input_shape[2],
                                DilatedKernel(layer.kernel_size[1], layer.dilation_rate[1]),
                                layer.strides[1])
            total_w == TotalPad(layer.input_shape[3],
                                DilatedKernel(layer.kernel_size[2], layer.dilation_rate[2]),
                                layer.strides[2])
            pad_top == total_h \div 2
            pad_bottom == total_h - pad_top
            pad_left == total_w \div 2
            pad_right == total_w - pad_left
        IN CASE layer.padding = "valid" ->
                  /\ r.raised = ""
                  /\ conv.op \in {"conv2d", "conv2d_transpose"}
                  /\ conv.args[1] = data
                  /\ PaddingOf(conv) = <<0, 0>>
             [] layer.padding = "same" /\ pad_top = pad_bottom /\ pad_left = pad_right ->
                  /\ r.raised = ""
                  /\ conv.op \in {"conv2d", "conv2d_transpose"}
                  /\ conv.args[1] = data
                  /\ PaddingOf(conv) = <<pad_top, pad_left>>
             [] layer.padding = "same" /\ ~(pad_top = pad_bottom /\ pad_left = pad_right) ->
                  /\ r.raised = ""
                  /\ conv.op \in {"conv2d", "conv2d_transpose"}
                  /\ conv.args[1] = Op("pad",
                                       <<0, 0, 0, 0, pad_top, pad_bottom, pad_left, pad_right>>,
                                       <<data>>)
                  /\ PaddingOf(conv) = <<0, 0>>
             [] OTHER ->
                  /\ r.raised = "TypeError"
                  /\ r.outs = <<>>

\* C12 witness: a "same" convolution dilated along the width was lowered whose
\* pads are asymmetric along the height and symmetric, from the dilated kernel,
\* along the width, so a pad operator was inserted.
C12_Witness ==
    /\ rule_out # <<>>
    /\ rule_in.layer.kind \in ConvKinds
    /\ rule_in.layer.padding = "same"
    /\ rule_in.layer.dilation_rate = <<1, 2>>
    /\ rule_in.layer.kernel_size[2] = 2
    /\ ConvOf(rule_out[1]).args[1].op = "pad"
    /\ ConvOf(rule_out[1]).args[1].attrs[5] # ConvOf(rule_out[1]).args[1].attrs[6]
    /\ ConvOf(rule_out[1]).args[1].attrs[7] = 1
    /\ ConvOf(rule_out[1]).args[1].attrs[8] = 1
RECURSIVE LeftFold(_, _, _)
\* op(...op(op(x0, x1), x2)..., x(n-1)) of the first n items
LeftFold(op, items, n) ==
    IF n = 1 THEN items[1]
    ELSE Op(op, <<>>, <<LeftFold(op, items, n - 1), items[n]>>)

RECURSIVE CountOps(_, _)
\* the number of applications of op in a value
CountOps(v, op) ==
    LET below == [i \in DOMAIN v.args |-> CountOps(v.args[i], op)]
        here == IF v.op = op THEN 1 ELSE 0
    IN IF Len(v.args) = 0 THEN here
       ELSE IF Len(v.args) = 1 THEN here + below[1]
       ELSE here + below[1] + below[2]

\* the binary operator of a merge kind
MergeOp(kind) ==
    CASE kind = "Add" -> "add"
      [] kind = "Multiply" -> "multiply"
      [] kind = "Maximum" -> "maximum"

\* C13: for Add, Multiply and Maximum with n inputs the merge rule produces n - 1
\* binary operations folded from the left, op(...op(op(x0, x1), x2)...); Average
\* produces n - 1 additions followed by one division by n; Subtract fails unless
\* exactly two inputs are supplied, and otherwise produces x0 - x1.
C13_MergeLeftFold ==
    (rule_out # <<>> /\ rule_in.layer.kind \in MergeKinds) =>
        LET kind == rule_in.layer.kind
            x == rule_in.arg.items
            n == Len(x)
            r == rule_out[1]
        IN CASE kind \in {"Add", "Multiply", "Maximum"} ->
                  /\ r.raised = ""
                  /\ r.outs = <<LeftFold(MergeOp(kind), x, n)>>
                  /\ CountOps(r.outs[1], MergeOp(kind)) = n - 1
             [] kind = "Average" ->
                  /\ r.raised = ""
                  /\ r.outs = <<Op("divide", <<>>, <<LeftFold("add", x, n), Const(n)>>)>>
                  /\ CountOps(r.outs[1], "add") = n - 1
                  /\ CountOps(r.outs[1], "divide") = 1
             [] kind = "Subtract" ->
                  IF n = 2
                  THEN /\ r.raised = ""
                       /\ r.outs = <<Op("subtract", <<>>, <<x[1], x[2]>>)>>
                  ELSE /\ r.raised # ""
                       /\ r.outs = <<>>

\* C13 witness: a merge of at least three inputs was folded, the last operation
\* taking the fold of the earlier inputs on its left and the last input on its
\* right.
C13_Witness ==
    /\ rule_out # <<>>
    /\ rule_in.layer.kind = "Maximum"
    /\ Len(rule_in.arg.items) >= 3
    /\ rule_out[1].outs[1].op = "maximum"
    /\ rule_out[1].outs[1].args[1].op = "maximum"
    /\ rule_out[1].outs[1].args[2] = rule_in.arg.items[Len(rule_in.arg.items)]
RECURSIVE SubTerms(_)
\* a value and every value it is built from
SubTerms(v) == {v} \cup UNION {SubTerms(v.args[i]) : i \in DOMAIN v.args}

\* the LSTM call lowered on its own: time steps, the sequence and the initial
\* state it starts from (the registered zero arrays when called on the sequence
\* alone), the registered weights
LstmSteps == rule_in.layer.input_shape[2]
LstmFresh == IF rule_in.arg.list THEN 0 ELSE 2
LstmInitial ==
    IF rule_in.arg.list THEN <<rule_in.arg.items[2], rule_in.arg.items[3]>>
    ELSE <<ConstRef(2), ConstRef(1)>>
LstmSlice(t) ==
    Item(Op("split", <<LstmSteps, 0>>, <<Op("squeeze", <<0>>, <<rule_in.arg.items[1]>>)>>),
         t - 1)

\* the gate vector of a step: dense(x_t, kernel) + bias_add(dense(h, recurrent), bias)
LstmGate(x_t, h) ==
    Op("add", <<>>,
       <<Op("dense", <<>>, <<x_t, ConstRef(LstmFresh + 1)>>),
         Op("bias_add", <<>>,
            <<Op("dense", <<>>, <<h, ConstRef(LstmFresh + 2)>>),
              ConstRef(LstmFresh + 3)>>)>>)

RECURSIVE LstmState(_)
\* <<h_t, c_t>>: c_t = forget_t * c_(t-1) + input_t * act(cell_t) and
\* h_t = output_t * act(c_t), the chunks of the gate vector of step t taken in
\* the order [input, forget, cell, output]
LstmState(t) ==
    IF t = 0 THEN LstmInitial
    ELSE LET before == LstmState(t - 1)
             chunks == Op("split", <<4, 1>>, <<LstmGate(LstmSlice(t), before[1])>>)
             input_t == RecurrentActivation(Item(chunks, 0))
             forget_t == RecurrentActivation(Item(chunks, 1))
             cell_t == Item(chunks, 2)
             output_t == RecurrentActivation(Item(chunks, 3))
             c_t == Op("add", <<>>,
                       <<Op("multiply", <<>>, <<forget_t, before[2]>>),
                         Op("multiply", <<>>, <<input_t, Activation(cell_t)>>)>>)
             h_t == Op("multiply", <<>>, <<output_t, Activation(c_t)>>)
         IN <<h_t, c_t>>

\* C14: LSTM lowering over T time steps emits exactly T steps in sequence order,
\* each with one dense projection of the step's input slice and one of the
\* previous hidden state (T pairs in total), and splits each step's gate vector
\* into 4 equal chunks used in the order [input, forget, cell, output]; the state
\* after step t is c_t = forget_t * c_(t-1) + input_t * act(cell_t) and
\* h_t = output_t * act(c_t), step t reading the h and c of step t - 1 (the
\* initial state for step 1).
C14_LstmUnrolling ==
    (rule_out # <<>> /\ rule_in.layer.kind = "LSTM") =>
        LET r == rule_out[1]
            T == LstmSteps
            all == SubTerms(r.outs[2]) \cup SubTerms(r.outs[3])
            dense == {v \in all : v.op = "dense"}
            splits == {v \in all : v.op = "split" /\ v.args[1].op = "add"}
        IN /\ r.raised = ""
           /\ r.outs[2] = LstmState(T)[1]
           /\ r.outs[3] = LstmState(T)[2]
           /\ r.outs[1].op = "reshape"
           /\ r.outs[1].args = <<r.outs[2]>>
           /\ Cardinality(dense) = 2 * T
           /\ \A t \in 1..T :
                  /\ Cardinality({v \in dense : v.args[1] = LstmSlice(t)}) = 1
                  /\ Cardinality({v \in dense : v.args[1] = LstmState(t - 1)[1]}) = 1
           /\ Cardinality(splits) = T
           /\ \A v \in splits : v.attrs = <<4, 1>>
           /\ \A v \in all : v.op = "item" /\ v.args[1] \in splits => v.attrs[1] \in 0..3

\* C14 witness: an LSTM over at least two time steps was lowered, the second step
\* projecting the hidden state the first step produced.
C14_Witness ==
    /\ rule_out # <<>>
    /\ rule_in.layer.kind = "LSTM"
    /\ LstmSteps >= 2
    /\ \E v \in SubTerms(rule_out[1].outs[2]) :
           /\ v.op = "dense"
           /\ v.args[1] = LstmState(1)[1]
\* the pre-check of from_keras has passed: the conversion is in or past the
\* traversal, or failed of something later than the pre-checks
PreCheckPassed ==
    \/ pc \in {"layer", "node", "edge", "record", "collect", "done"}
    \/ pc = "failed" /\ err \notin {"backend", "data_format", "unsupported_layer"}

\* C15: once the eager unsupported-kind pre-check of from_keras has passed, the
\* unsupported-kind failure at dispatch time in keras_op_to_relay is unreachable
\* for every layer of the model: every layer's kind is in the supported set both
\* checks test, so no call-site about to be dispatched is of an unsupported kind
\* and the conversion never fails with the dispatch-time error.
C15_DispatchCheckUnreachable ==
    /\ err # "NotImplementedError"
    /\ PreCheckPassed =>
           \A i \in DOMAIN model.layers : model.layers[i].layer.kind \in ConvertMapKeys
    /\ pc = "edge" => CurrentLayer.kind \in ConvertMapKeys

\* C15 witness: the pre-check has passed and the call-sites of two different
\* layers have gone through the dispatch.
C15_Witness ==
    /\ PreCheckPassed
    /\ \E a, b \in Sites :
           /\ a[1] # b[1]
           /\ SiteName(a) \in DOMAIN passed
           /\ SiteName(b) \in DOMAIN passed
\* the number of constants the rule of a layer registers when it is called on
\* arg and returns: the weight arrays, and the zero-filled initial state of a
\* recurrent layer called on the sequence alone
RuleConstants(layer, arg) ==
    CASE layer.kind \in {"Dense", "Conv2D"} -> IF layer.use_bias THEN 2 ELSE 1
      [] layer.kind = "LSTM" -> IF arg.list THEN 3 ELSE 5
      [] layer.kind \in {"SimpleRNN", "GRU"} -> IF arg.list THEN 3 ELSE 4
      [] OTHER -> 0

\* the call-sites lowered so far
LoweredSites == {site \in Sites : SiteName(site) \in DOMAIN passed}

RECURSIVE SumOfConstants(_)
\* the constants the rules of a set of lowered call-sites register, in total
SumOfConstants(sites) ==
    IF sites = {} THEN 0
    ELSE LET site == CHOOSE x \in sites : TRUE
         IN RuleConstants(SiteLayer(site), passed[SiteName(site)])
                + SumOfConstants(sites \ {site})

\* C16 (state part): while no error was raised the registry holds, for every
\* lowered call-site, the constants its rule registers: its size is their sum
\* over the lowered call-sites, a weight-bearing layer's kernel is there once per
\* lowered call-site of the layer, and the returned parameters are the registry's
\* entries.
C16_ConstantsPerCallSite ==
    /\ pc # "failed" =>
           /\ Len(params) = SumOfConstants(LoweredSites)
           /\ \A i \in DOMAIN model.layers :
                  RuleConstants(model.layers[i].layer, Bare(Var(""))) > 0 =>
                      Cardinality({j \in DOMAIN params :
                                      params[j].array
                                          = Array(model.layers[i].layer.name, 0, "transpose")})
                          = Cardinality({site \in LoweredSites : site[1] = i})
    /\ \A i, j \in DOMAIN params : i # j => params[i].name # params[j].name
    /\ pc = "done" =>
           /\ Cardinality(DOMAIN result[2]) = Len(params)
           /\ Cardinality(DOMAIN result[2]) = SumOfConstants({s \in Sites : SiteRelevant(s)})

\* C16 (step part): the registry only grows: every step keeps the entries there
\* are, in place.
C16_RegistryGrows ==
    /\ Len(params') >= Len(params)
    /\ SubSeq(params', 1, Len(params)) = params

\* C16: constants are registered once per lowered call-site, not once per layer:
\* a weight-bearing layer with k relevant call-sites registers its weight arrays
\* k times, the registry at the end of a successful conversion has as many
\* entries as the rules of all lowered call-sites register together, and the
\* registry only grows during the traversal.
C16_RegisteredPerCallSite == []C16_ConstantsPerCallSite /\ [][C16_RegistryGrows]_vars

\* C16 witness: a conversion has ended in which one Dense layer with bias was
\* lowered at two call-sites: the registry holds four constants, the layer's
\* kernel and bias twice each.
C16_Witness ==
    /\ pc = "done"
    /\ \E i \in DOMAIN model.layers :
           /\ model.layers[i].layer.kind = "Dense"
           /\ model.layers[i].layer.use_bias
           /\ Cardinality({site \in LoweredSites : site[1] = i}) = 2
    /\ Len(params) = 4
    /\ params[1].array = params[3].array
    /\ params[2].array = params[4].array
    /\ Cardinality(DOMAIN result[2]) = 4

====
